---- MODULE Spec2Model ----
(***************************************************************************)
(* Composite "Specification" predicates of src/specification.rs:           *)
(* AndSpecification, OrSpecification and XorSpecification, each wrapping a *)
(* CompositeSpecification that owns an ordered Vec of boxed children.      *)
(*                                                                         *)
(* The state is the set of combinator values the calling code owns (its    *)
(* local variables).  A combinator is built with new(), grows through      *)
(* add_child_specifications(), which takes the child by value (a leaf that *)
(* was just constructed, or another owned combinator, which is moved into  *)
(* the parent and is no longer usable by the caller), and is evaluated     *)
(* with is_satisfied_by().                                                 *)
(***************************************************************************)
EXTENDS Integers, Sequences, FiniteSets

\* Largest number of nodes (combinators and leaves) the caller owns in total.
MaxNodes == 5
\* Largest number of consecutive is_satisfied_by calls that is counted.
MaxCalls == 2

\* The caller's local variables that hold a combinator.
Vars == {"spec", "inner"}

\* The three combinators (impl Specification<T> for ...).
Combinators == {"AndSpecification", "OrSpecification", "XorSpecification"}

\* The leaf predicates of the test module: constant true and constant false.
Leaves == {"TrueSpecification", "FalseSpecification"}

\* The candidates: the test module's unit struct TestMessage {}.
Candidates == {"TestMessage"}

\* A variable that holds no value: not yet constructed, or moved out.
Moved == [kind |-> "Moved", child_specifications |-> <<>>]

\* TrueSpecification::new() / FalseSpecification::new()
Leaf(k) == [kind |-> k, child_specifications |-> <<>>]

\* AndSpecification::new(), OrSpecification::new(), XorSpecification::new():
\* a combinator whose CompositeSpecification holds Vec::new().
new(k) == [kind |-> k, child_specifications |-> <<>>]

\* CompositeSpecification::children (and the three forwarding children()).
children(self) == self.child_specifications

\* A bug variant of add_child_specifications: the child is put in front.
add_child_front(self, child) ==
    [self EXCEPT !.child_specifications = <<child>> \o @]

\* CompositeSpecification::add_child_specifications: Vec::push.
add_child_specifications(self, child) ==
    [self EXCEPT !.child_specifications = Append(@, child)]

RECURSIVE Size(_)
RECURSIVE SizeSeq(_)
\* Number of nodes of a predicate tree.
Size(t) == IF t.kind = "Moved" THEN 0 ELSE 1 + SizeSeq(t.child_specifications)
SizeSeq(s) == IF s = <<>> THEN 0 ELSE Size(Head(s)) + SizeSeq(Tail(s))

(***************************************************************************)
(* Evaluation.  Call(self, candidate) is the dynamic dispatch of           *)
(* is_satisfied_by through Box<dyn Specification<T>>; it yields the return *)
(* value together with the positions of the children whose                 *)
(* is_satisfied_by this call invoked, in the order of the invocations.     *)
(***************************************************************************)
RECURSIVE Call(_, _)
RECURSIVE AndLoop(_, _, _, _)
RECURSIVE OrLoop(_, _, _, _)
RECURSIVE XorLoop(_, _, _, _, _)
RECURSIVE AndLoop_NoBreak(_, _, _, _)
RECURSIVE OrLoop_First(_, _, _, _)
RECURSIVE OrLoop_Last(_, _, _, _)
RECURSIVE XorLoop_Reset(_, _, _, _, _)
RECURSIVE XorLoop_Parity(_, _, _, _, _)

\* Bug variant of And's loop: a false child is remembered only until the
\* next child, so the value of the last child is returned.
AndLoop_NoBreak(cs, candidate, i, evaluated) ==
    IF i > Len(cs) THEN [result |-> TRUE, evaluated |-> evaluated]
    ELSE IF i = Len(cs) /\ ~Call(cs[i], candidate).result
         THEN [result |-> FALSE, evaluated |-> Append(evaluated, i)]
         ELSE AndLoop_NoBreak(cs, candidate, i + 1, Append(evaluated, i))

\* for child in self.children() { if !child.is_satisfied_by(candidate)
\* { return false; } } true
AndLoop(cs, candidate, i, evaluated) ==
    IF i > Len(cs) THEN [result |-> TRUE, evaluated |-> evaluated]
    ELSE IF ~Call(cs[i], candidate).result
         THEN [result |-> FALSE, evaluated |-> Append(evaluated, i)]
         ELSE AndLoop(cs, candidate, i + 1, Append(evaluated, i))

\* Bug variant of And: the empty check is left out.
AndSpecification_NoEmptyCheck(self, candidate) ==
    AndLoop(children(self), candidate, 1, <<>>)

\* AndSpecification::is_satisfied_by
AndSpecification_is_satisfied_by(self, candidate) ==
    IF Len(children(self)) <= 0
    THEN [result |-> FALSE, evaluated |-> <<>>]
    ELSE AndLoop(children(self), candidate, 1, <<>>)

\* Bug variant of Or's loop: the first child's value is returned at once.
OrLoop_First(cs, candidate, i, evaluated) ==
    IF i > Len(cs) THEN [result |-> FALSE, evaluated |-> evaluated]
    ELSE [result |-> Call(cs[i], candidate).result,
          evaluated |-> Append(evaluated, i)]

\* Bug variant of Or's loop: no early return, the last child's value wins.
OrLoop_Last(cs, candidate, i, evaluated) ==
    IF i > Len(cs) THEN [result |-> FALSE, evaluated |-> evaluated]
    ELSE IF i = Len(cs)
         THEN [result |-> Call(cs[i], candidate).result,
               evaluated |-> Append(evaluated, i)]
         ELSE OrLoop_Last(cs, candidate, i + 1, Append(evaluated, i))

\* for child in self.children() { if child.is_satisfied_by(candidate)
\* { return true; } } false
OrLoop(cs, candidate, i, evaluated) ==
    IF i > Len(cs) THEN [result |-> FALSE, evaluated |-> evaluated]
    ELSE IF Call(cs[i], candidate).result
         THEN [result |-> TRUE, evaluated |-> Append(evaluated, i)]
         ELSE OrLoop(cs, candidate, i + 1, Append(evaluated, i))

\* OrSpecification::is_satisfied_by
OrSpecification_is_satisfied_by(self, candidate) ==
    IF Len(children(self)) <= 0
    THEN [result |-> FALSE, evaluated |-> <<>>]
    ELSE OrLoop(children(self), candidate, 1, <<>>)

\* Bug variant of Xor's loop: a false child clears the flag, so only two
\* adjacent true children are detected.
XorLoop_Reset(cs, candidate, i, flag, evaluated) ==
    IF i > Len(cs) THEN [result |-> TRUE, evaluated |-> evaluated]
    ELSE IF Call(cs[i], candidate).result
         THEN IF flag
              THEN [result |-> FALSE, evaluated |-> Append(evaluated, i)]
              ELSE XorLoop_Reset(cs, candidate, i + 1, TRUE, Append(evaluated, i))
         ELSE XorLoop_Reset(cs, candidate, i + 1, FALSE, Append(evaluated, i))

\* Bug variant of Xor's loop: no early return on the second true child; every
\* child is evaluated and the result is computed at the end.
XorLoop_Parity(cs, candidate, i, flag, evaluated) ==
    IF i > Len(cs)
    THEN [result |-> Cardinality({j \in 1..Len(cs) : Call(cs[j], candidate).result}) < 2,
          evaluated |-> evaluated]
    ELSE XorLoop_Parity(cs, candidate, i + 1, flag, Append(evaluated, i))

\* let mut flag = false; for child in self.children() { match
\* child.is_satisfied_by(candidate) { true => { if flag { return false; }
\* else { flag = true; } } false => continue, } } true
XorLoop(cs, candidate, i, flag, evaluated) ==
    IF i > Len(cs) THEN [result |-> TRUE, evaluated |-> evaluated]
    ELSE IF Call(cs[i], candidate).result
         THEN IF flag
              THEN [result |-> FALSE, evaluated |-> Append(evaluated, i)]
              ELSE XorLoop(cs, candidate, i + 1, TRUE, Append(evaluated, i))
         ELSE XorLoop(cs, candidate, i + 1, flag, Append(evaluated, i))

\* XorSpecification::is_satisfied_by
XorSpecification_is_satisfied_by(self, candidate) ==
    IF Len(children(self)) <= 0
    THEN [result |-> FALSE, evaluated |-> <<>>]
    ELSE XorLoop(children(self), candidate, 1, FALSE, <<>>)

\* Specification::is_satisfied_by, dispatched on the concrete type.
Call(self, candidate) ==
    CASE self.kind = "TrueSpecification" -> [result |-> TRUE, evaluated |-> <<>>]
      [] self.kind = "FalseSpecification" -> [result |-> FALSE, evaluated |-> <<>>]
      [] self.kind = "AndSpecification" -> AndSpecification_is_satisfied_by(self, candidate)
      [] self.kind = "OrSpecification" -> OrSpecification_is_satisfied_by(self, candidate)
      [] self.kind = "XorSpecification" -> XorSpecification_is_satisfied_by(self, candidate)

\* The boolean a call returns.
is_satisfied_by(self, candidate) == Call(self, candidate).result

(***************************************************************************)
(* The state machine.                                                      *)
(***************************************************************************)
VARIABLES
    owned,      \* owned[v]: the combinator variable v holds, or Moved
    attached,   \* attached[v]: the children passed to v's add_child_specifications, in call order
    last        \* the latest is_satisfied_by call, if nothing was built since

vars == <<owned, attached, last>>

\* No is_satisfied_by call since the last construction step.
NoCall == [op |-> "none", self |-> "spec", candidate |-> "TestMessage",
           result |-> FALSE, evaluated |-> <<>>, calls |-> 0]

Live(v) == owned[v].kind \in Combinators

TotalSize == Size(owned["spec"]) + Size(owned["inner"])

Init ==
    /\ owned = [v \in Vars |-> Moved]
    /\ attached = [v \in Vars |-> <<>>]
    /\ last = NoCall

\* let mut v = XxxSpecification::<TestMessage>::new();
New(v, k) ==
    /\ ~Live(v)
    /\ TotalSize < MaxNodes
    /\ owned' = [owned EXCEPT ![v] = new(k)]
    /\ attached' = [attached EXCEPT ![v] = <<>>]
    /\ last' = NoCall

\* v.add_child_specifications(Box::new(TrueSpecification::new())), or False
AddLeaf(v, k) ==
    /\ Live(v)
    /\ TotalSize < MaxNodes
    /\ owned' = [owned EXCEPT ![v] = add_child_specifications(@, Leaf(k))]
    /\ attached' = [attached EXCEPT ![v] = Append(@, Leaf(k))]
    /\ last' = NoCall

\* v.add_child_specifications(Box::new(w)): w is moved into v
AddNested(v, w) ==
    /\ v # w
    /\ Live(v)
    /\ Live(w)
    /\ owned' = [owned EXCEPT ![v] = add_child_specifications(@, owned[w]),
                              ![w] = Moved]
    /\ attached' = [attached EXCEPT ![v] = Append(@, owned[w]), ![w] = <<>>]
    /\ last' = NoCall

\* The record of a call of v.is_satisfied_by(&candidate).
CallRecord(v, candidate) ==
    LET r == Call(owned[v], candidate)
        again == last.op = "is_satisfied_by" /\ last.self = v /\ last.candidate = candidate
    IN  [op |-> "is_satisfied_by", self |-> v, candidate |-> candidate,
         result |-> r.result, evaluated |-> r.evaluated,
         calls |-> IF again THEN last.calls + 1 ELSE 1]

\* Bug variant of Evaluate: the evaluated children are drained from the Vec.
Evaluate_Drain(v, candidate) ==
    /\ Live(v)
    /\ last.calls < MaxCalls \/ last.self # v
    /\ last' = CallRecord(v, candidate)
    /\ owned' = [owned EXCEPT ![v].child_specifications =
                    SubSeq(@, Len(last'.evaluated) + 1, Len(@))]
    /\ UNCHANGED attached

\* let result = v.is_satisfied_by(&candidate);   (&self: nothing is written)
Evaluate(v, candidate) ==
    /\ Live(v)
    /\ last.calls < MaxCalls \/ last.self # v
    /\ last' = CallRecord(v, candidate)
    /\ UNCHANGED <<owned, attached>>

Next ==
    \/ \E v \in Vars, k \in Combinators : New(v, k)
    \/ \E v \in Vars, k \in Leaves : AddLeaf(v, k)
    \/ \E v \in Vars, w \in Vars : AddNested(v, w)
    \/ \E v \in Vars, c \in Candidates : Evaluate(v, c)

Spec == Init /\ [][Next]_vars

(***************************************************************************)
(* Properties.                                                             *)
(***************************************************************************)
Evaluated(v) == last.op = "is_satisfied_by" /\ last.self = v /\ Live(v)

\* The positions of the children that evaluate true on the candidate.
TruePositions(cs, candidate) ==
    {j \in 1..Len(cs) : is_satisfied_by(cs[j], candidate)}

TrueCount(cs, candidate) == Cardinality(TruePositions(cs, candidate))

HasNestedChild(t) ==
    \E j \in 1..Len(children(t)) : children(t)[j].kind \in Combinators

\* C1: XorSpecification.is_satisfied_by returns true iff exactly one child
\* evaluates true on the candidate, for every child list.
C1_XorExactlyOne ==
    \A v \in Vars :
        Evaluated(v) /\ owned[v].kind = "XorSpecification"
            => (last.result <=> TrueCount(children(owned[v]), last.candidate) = 1)

\* C2: a combinator with zero children returns false, whichever of And, Or
\* and Xor it is.
C2_EmptyIsFalse ==
    \A v \in Vars :
        Evaluated(v) /\ Len(children(owned[v])) = 0 => last.result = FALSE

C2_Witness ==
    \E v \in Vars :
        /\ Evaluated(v)
        /\ owned[v].kind = "AndSpecification"
        /\ children(owned[v]) = <<>>

\* C3: a non-empty AndSpecification returns true iff every child evaluates
\* true on the candidate.
C3_AndAllTrue ==
    \A v \in Vars :
        Evaluated(v) /\ owned[v].kind = "AndSpecification" /\ Len(children(owned[v])) > 0
            => (last.result <=>
                    \A j \in 1..Len(children(owned[v])) :
                        is_satisfied_by(children(owned[v])[j], last.candidate))

C3_Witness ==
    \E v \in Vars :
        /\ Evaluated(v)
        /\ owned[v].kind = "AndSpecification"
        /\ Len(children(owned[v])) >= 3
        /\ TrueCount(children(owned[v]), last.candidate) = Len(children(owned[v])) - 1
        /\ is_satisfied_by(children(owned[v])[Len(children(owned[v]))], last.candidate)
        /\ ~last.result

\* C4: a non-empty OrSpecification returns true iff at least one child
\* evaluates true on the candidate.
C4_OrSomeTrue ==
    \A v \in Vars :
        Evaluated(v) /\ owned[v].kind = "OrSpecification" /\ Len(children(owned[v])) > 0
            => (last.result <=>
                    \E j \in 1..Len(children(owned[v])) :
                        is_satisfied_by(children(owned[v])[j], last.candidate))

C4_Witness ==
    \E v \in Vars :
        /\ Evaluated(v)
        /\ owned[v].kind = "OrSpecification"
        /\ Len(children(owned[v])) >= 3
        /\ TruePositions(children(owned[v]), last.candidate) = {Len(children(owned[v]))}
        /\ last.result

RECURSIVE Orderings(_)
\* The sequences that list every element of the set S once.
Orderings(S) ==
    IF S = {} THEN {<<>>}
    ELSE UNION {{<<x>> \o p : p \in Orderings(S \ {x})} : x \in S}

\* The permutations of 1..n.
Perms(n) == Orderings(1..n)

\* The combinator t with its children rearranged by the permutation f.
Permuted(t, f) ==
    [t EXCEPT !.child_specifications = [i \in 1..Len(@) |-> @[f[i]]]]

RECURSIVE Meaning(_, _)
\* The value of a predicate tree under the combinators' stated semantics:
\* And is "non-empty and all", Or is "some", Xor is "exactly one".
Meaning(t, candidate) ==
    LET cs == children(t)
        T == {j \in 1..Len(cs) : Meaning(cs[j], candidate)}
    IN  CASE t.kind = "TrueSpecification" -> TRUE
          [] t.kind = "FalseSpecification" -> FALSE
          [] t.kind = "AndSpecification" -> Len(cs) > 0 /\ T = 1..Len(cs)
          [] t.kind = "OrSpecification" -> T # {}
          [] t.kind = "XorSpecification" -> Cardinality(T) = 1

\* C6: a tree with a combinator attached as a child of another combinator
\* evaluates to the value its nodes' semantics give, applied recursively.
C6_NestedMeaning ==
    \A v \in Vars :
        Evaluated(v) /\ HasNestedChild(owned[v])
            => last.result = Meaning(owned[v], last.candidate)

\* C7: an is_satisfied_by call leaves every combinator as it was, and a
\* repeated call on the same combinator and candidate returns the same result.
C7_EvaluationIsPure ==
    [][last'.op = "is_satisfied_by"
           => /\ owned' = owned
              /\ (last.op = "is_satisfied_by" /\ last'.self = last.self
                      /\ last'.candidate = last.candidate)
                     => last'.result = last.result]_vars

C7_Witness ==
    \E v \in Vars :
        /\ Evaluated(v)
        /\ last.calls >= 2
        /\ Len(children(owned[v])) >= 2
        /\ HasNestedChild(owned[v])

IsPrefix(s, t) == Len(s) <= Len(t) /\ SubSeq(t, 1, Len(s)) = s

\* C8: a combinator starts empty, every step leaves its child list as it was
\* or appends one child at the end, and children() is always the sequence of
\* the children attached so far, in the order they were attached.
C8_AppendOnly ==
    /\ [][\A v \in Vars :
              /\ (~Live(v) /\ Live(v)') => children(owned'[v]) = <<>>
              /\ (Live(v) /\ Live(v)')
                     => \/ children(owned'[v]) = children(owned[v])
                        \/ /\ Len(children(owned'[v])) = Len(children(owned[v])) + 1
                           /\ IsPrefix(children(owned[v]), children(owned'[v]))]_vars
    /\ [](\A v \in Vars : Live(v) => children(owned[v]) = attached[v])

C8_Witness ==
    \E v \in Vars :
        /\ Evaluated(v)
        /\ Len(children(owned[v])) >= 3
        /\ children(owned[v])[1] # children(owned[v])[2]
        /\ HasNestedChild(owned[v])
        /\ children(owned[v]) = attached[v]

\* The position of the child that decides the result: the first false child
\* of And, the first true child of Or, the second true child of Xor; the
\* last position when no child decides.
Deciding(t, candidate) ==
    LET cs == children(t)
        T == TruePositions(cs, candidate)
        D == CASE t.kind = "AndSpecification" -> (1..Len(cs)) \ T
               [] t.kind = "OrSpecification" -> T
               [] t.kind = "XorSpecification" ->
                      {j \in T : Cardinality({i \in T : i < j}) = 1}
    IN  IF D = {} THEN Len(cs) ELSE CHOOSE j \in D : \A i \in D : j <= i

\* C9: a call evaluates the children in insertion order, each once, up to
\* and including the deciding child and no further.
C9_EvaluatesDecidingPrefix ==
    \A v \in Vars :
        Evaluated(v)
            => last.evaluated = [i \in 1..Deciding(owned[v], last.candidate) |-> i]

C9_Witness ==
    \E v \in Vars :
        /\ Evaluated(v)
        /\ owned[v].kind = "XorSpecification"
        /\ Len(children(owned[v])) = 4
        /\ last.evaluated = <<1, 2, 3>>

\* The combinator t with only its first n children.
Prefix(t, n) == [t EXCEPT !.child_specifications = SubSeq(@, 1, n)]

\* C10: attaching a child never turns a non-empty AndSpecification from
\* false to true, and never turns an OrSpecification from true to false.
C10_AddChildMonotone ==
    [][\A v \in Vars, c \in Candidates :
           (Live(v) /\ Live(v)'
                /\ Len(children(owned'[v])) = Len(children(owned[v])) + 1)
               => /\ (owned[v].kind = "AndSpecification"
                          /\ Len(children(owned[v])) >= 1
                          /\ ~is_satisfied_by(owned[v], c))
                         => ~is_satisfied_by(owned'[v], c)
                  /\ (owned[v].kind = "OrSpecification" /\ is_satisfied_by(owned[v], c))
                         => is_satisfied_by(owned'[v], c)]_vars

C10_Witness ==
    \E v \in Vars, c \in Candidates :
        LET o == owned[v]
            a == children(o)[Len(children(o))]
        IN  /\ o.kind = "OrSpecification"
            /\ Len(children(o)) >= 2
            /\ is_satisfied_by(Prefix(o, Len(children(o)) - 1), c)
            /\ a.kind = "AndSpecification"
            /\ Len(children(a)) >= 2
            /\ is_satisfied_by(children(a)[Len(children(a))], c)
            /\ ~is_satisfied_by(Prefix(a, Len(children(a)) - 1), c)
            /\ ~is_satisfied_by(a, c)
            /\ is_satisfied_by(o, c)

====
